---------------------------- MODULE Spec2Model ----------------------------
(***************************************************************************)
(* A model of scripts/compute_cumulative_gpa.py: the course attribute      *)
(* deriver, the current-year loader and assembler (four validated joins),  *)
(* the yearly aggregator, the cumulative combiner and the control flow of  *)
(* main.                                                                   *)
(*                                                                         *)
(* Data frames are sequences of records (rows, in frame order).  A cell    *)
(* that may be null is a tuple: << >> is null (None / NaN), <<v>> is the   *)
(* value v.  Numbers are integers; tot_gpa is kept in hundredths.          *)
(***************************************************************************)
EXTENDS Integers, Sequences, FiniteSets, TLC

VARIABLES
    pc,              \* position of main / compute_cumulative_gpa
    argv,            \* args.prev_courses, the raw --prev-courses items
    prev_pairs,      \* result of parse_prev_courses
    reads,           \* the data sources read so far, in order
    sql_courseflag,  \* the CourseFlag rows as read_sql_table returned them
    tables,          \* result of load_current_year_data
    coursegrades,    \* result of compute_current_year_coursegrades
    merged,          \* roster-joined current-year frame (is_passing forced)
    prior_dfs,       \* the prior-year frames load_prior_courses returned
    all_frames,      \* [totals_current] + prior_totals
    cumulative,      \* the cumulative frame
    output,          \* the .dta file: << >> until written, then <<frame>>
    err,             \* the exception that ended the run, "" if none
    df,              \* input frame of derive_subject_and_description
    derived          \* its result

vars == <<pc, argv, prev_pairs, reads, sql_courseflag, tables, coursegrades,
          merged, prior_dfs, all_frames, cumulative, output, err, df, derived>>

-----------------------------------------------------------------------------
(* Bounds of the model *)

MaxFrameRows == 2   \* rows of a frame given to the deriver
MaxFlagRows == 3    \* raw CourseFlag rows
MaxTableRows == 2   \* rows of each database table given to the assembler
MaxRows == 2        \* rows of a frame given to the yearly aggregator
MaxPrior == 2       \* --prev-courses items
MaxBiogRows == 2    \* rows of the roster file

-----------------------------------------------------------------------------
(* Nullable cells and frames *)

NULL == << >>

Some(v) == <<v>>

IsNull(x) == x = NULL

Val(x) == x[1]

\* row r with column col set to val (the column is added when absent)
SetCol(r, col, val) == (col :> val) @@ r

\* the sequences over S of length at most n
SeqsUpTo(S, n) == UNION {[1..k -> S] : k \in 0..n}

RECURSIVE Concat(_)
\* pd.concat(frames, ignore_index=True): the rows of every frame, in order
Concat(frames) ==
    IF frames = << >> THEN << >>
    ELSE Head(frames) \o Concat(Tail(frames))

-----------------------------------------------------------------------------
(* derive_subject_and_description                                          *)

\* str.slice(start, stop) for stop = start + 1, on a sequence of characters:
\* the character at 0-based index start, "" when the string is too short
Slice(s, start) == IF start + 1 <= Len(s) THEN s[start + 1] ELSE ""

\* astype(str) of a CourseCD cell: a null (None) reads "None"
AsStr(cell) == IF IsNull(cell) THEN <<"N", "o", "n", "e">> ELSE Val(cell)

\* line 141: the first character of every row's CourseCD
First(f) == [i \in DOMAIN f |-> Slice(AsStr(f[i].CourseCD), 0)]

\* the sixth character read one place too far (a 1-based index kept as is)
SixthOffByOne(f) == [i \in DOMAIN f |-> Slice(AsStr(f[i].CourseCD), 6)]

\* line 142: the sixth character of every row's CourseCD
Sixth(f) == [i \in DOMAIN f |-> Slice(AsStr(f[i].CourseCD), 5)]

\* line 143: the fourth character of every row's CourseCD
Fourth(f) == [i \in DOMAIN f |-> Slice(AsStr(f[i].CourseCD), 3)]

\* df.loc[mask, col] = val, for a mask with one boolean per row
Loc(f, mask, col, val) ==
    [i \in DOMAIN f |-> IF mask[i] THEN SetCol(f[i], col, val) ELSE f[i]]

\* lines 145-157: the subject table, in source order
SubjectTable ==
    << <<{"E"}, "English">>, <<{"H"}, "Social Studies">>,
       <<{"M"}, "Mathematics">>, <<{"S"}, "Science">>,
       <<{"F"}, "Foreign Language">>,
       <<{"P"}, "Physical Education & Health">>,
       <<{"A", "U", "D", "C"}, "Arts">>, <<{"T"}, "Technology">>,
       <<{"R"}, "Career Development">>, <<{"B"}, "Business">>,
       <<{"K"}, "Human Services">>, <<{"G"}, "Guidance">>,
       <<{"Z"}, "Undefined">> >>

\* lines 164-172: the course_description table, in source order
DescriptionTable ==
    << <<{"H"}, "Honors">>, <<{"X"}, "Advanced Placement (AP)">>,
       <<{"B"}, "International Baccalaureate (IB)">>,
       <<{"U"}, "College-Level: College Credit">>,
       <<{"C"}, "College-Level: Non-College Credit">>,
       <<{"T"}, "CTE">>, <<{"S"}, "Non-Credit/Remediation">>,
       <<{"P"}, "Exam Preparation">>, <<{"Q"}, "N/A">> >>

\* one df.loc[chars.isin(entry), col] = val per table entry, in order
ApplyTable(f, chars, col, table) ==
    LET after[k \in 0..Len(table)] ==
            IF k = 0 THEN f
            ELSE Loc(after[k - 1], [i \in DOMAIN f |-> chars[i] \in table[k][1]],
                     col, table[k][2])
    IN after[Len(table)]

\* lines 159-160 and 174-178 applied BEFORE the tables instead of after them
DeriveOverridesFirst(f) ==
    LET first == First(f)
        sixth == Sixth(f)
        fourth == Fourth(f)
        all == [i \in DOMAIN f |-> TRUE]
        isJ == [i \in DOMAIN f |-> fourth[i] = "J"]
        accM == [i \in DOMAIN f |-> sixth[i] = "A" /\ fourth[i] = "M"]
        advM == [i \in DOMAIN f |->
                    sixth[i] \in {"X", "B", "U", "C", "P"} /\ fourth[i] = "M"]
        s0 == Loc(f, all, "subject", "")
        s1 == Loc(s0, isJ, "subject", "")
        s2 == ApplyTable(s1, first, "subject", SubjectTable)
        d0 == Loc(s2, all, "course_description", "")
        d1 == Loc(d0, isJ, "course_description", "")
        d2 == Loc(d1, accM, "course_description", "Accelerated")
        d3 == Loc(d2, advM, "course_description", "")
    IN ApplyTable(d3, sixth, "course_description", DescriptionTable)

\* lines 136-180
derive_subject_and_description(f) ==
    LET first == First(f)
        sixth == Sixth(f)
        fourth == Fourth(f)
        all == [i \in DOMAIN f |-> TRUE]
        isJ == [i \in DOMAIN f |-> fourth[i] = "J"]
        accM == [i \in DOMAIN f |-> sixth[i] = "A" /\ fourth[i] = "M"]
        advM == [i \in DOMAIN f |->
                    sixth[i] \in {"X", "B", "U", "C", "P"} /\ fourth[i] = "M"]
        s0 == Loc(f, all, "subject", "")
        s1 == ApplyTable(s0, first, "subject", SubjectTable)
        s2 == Loc(s1, isJ, "subject", "")
        d0 == Loc(s2, all, "course_description", "")
        d1 == ApplyTable(d0, sixth, "course_description", DescriptionTable)
        d2 == Loc(d1, isJ, "course_description", "")
        d3 == Loc(d2, accM, "course_description", "Accelerated")
    IN Loc(d3, advM, "course_description", "")

-----------------------------------------------------------------------------
(* The deriver on its own: course codes drawn from bounded sets            *)

Char1Values ==
    {"E", "H", "M", "S", "F", "P", "A", "U", "D", "C", "T", "R", "B", "K",
     "G", "Z", "9"}

Char4Values == {"J", "M", "X"}

Char6Values == {"H", "X", "B", "U", "C", "T", "S", "P", "Q", "A", "9"}

\* six-character codes "c1 3 H c4 X c6"; E3HXXX is one of them
FullCodes ==
    {<<c1, "3", "H", c4, "X", c6>> :
        c1 \in Char1Values, c4 \in Char4Values, c6 \in Char6Values}

\* codes shorter than six characters
ShortCodes == {<< >>, <<"E">>, <<"E", "3", "H", "J">>, <<"M", "3", "H", "M", "X">>}

\* the codes of the rows that surround the first row of a frame
ContextCodes ==
    {Some(<<"M", "3", "H", "J", "X", "H">>), Some(<<"E", "3", "H", "M", "X", "A">>),
     Some(<<"S", "3", "H", "M", "X", "X">>), Some(<<"Z", "3", "H", "X", "X", "Q">>),
     Some(<<"E">>), NULL}

CourseCDCells == {Some(c) : c \in FullCodes \cup ShortCodes} \cup {NULL}

DeriveFrames ==
    {<< >>} \cup
    {<<[CourseCD |-> c]>> \o [i \in 1..Len(rest) |-> [CourseCD |-> rest[i]]] :
        c \in CourseCDCells, rest \in SeqsUpTo(ContextCodes, MaxFrameRows - 1)}

\* main and its variables at position start, nothing read or computed
MainAt(start) ==
    /\ pc = start /\ argv = << >> /\ prev_pairs = << >> /\ reads = << >>
    /\ sql_courseflag = << >> /\ tables = << >> /\ coursegrades = << >>
    /\ merged = << >> /\ prior_dfs = << >> /\ all_frames = << >>
    /\ cumulative = << >> /\ output = << >> /\ err = ""

InitDerive ==
    /\ MainAt("idle")
    /\ df \in DeriveFrames
    /\ derived = << >>

Derive ==
    /\ pc = "idle"
    /\ pc' = "derived"
    /\ derived' = derive_subject_and_description(df)
    /\ UNCHANGED <<argv, prev_pairs, reads, sql_courseflag, tables,
                   coursegrades, merged, prior_dfs, all_frames, cumulative,
                   output, err, df>>

NextDerive == Derive

SpecDerive == InitDerive /\ [][NextDerive]_vars

-----------------------------------------------------------------------------
(* load_current_year_data: the five tables, CourseFlag deduplicated        *)

\* the characters of the model's course codes, in code point order
Alphabet ==
    <<"3", "9", "A", "B", "C", "D", "E", "F", "G", "H", "J", "K", "M", "N",
      "P", "Q", "R", "S", "T", "U", "X", "Z", "e", "n", "o">>

CharRank(c) == CHOOSE i \in 1..Len(Alphabet) : Alphabet[i] = c

RECURSIVE StrLess(_, _)
\* s < t for two strings
StrLess(s, t) ==
    IF t = << >> THEN FALSE
    ELSE IF s = << >> THEN TRUE
    ELSE IF Head(s) # Head(t) THEN CharRank(Head(s)) < CharRank(Head(t))
    ELSE StrLess(Tail(s), Tail(t))

FlagKeyCols == {"SchoolYear", "SchoolDBN", "TermCD", "CourseCD", "MarkingPeriod"}

\* the columns of a row named by cols
KeyOf(r, cols) == [c \in cols |-> r[c]]

\* line 103: the sort key, compared column by column in the listed order
FlagKeyLess(a, b) ==
    IF a.SchoolYear # b.SchoolYear THEN a.SchoolYear < b.SchoolYear
    ELSE IF a.SchoolDBN # b.SchoolDBN THEN a.SchoolDBN < b.SchoolDBN
    ELSE IF a.TermCD # b.TermCD THEN a.TermCD < b.TermCD
    ELSE IF a.CourseCD # b.CourseCD
         THEN StrLess(Val(a.CourseCD), Val(b.CourseCD))
    ELSE a.MarkingPeriod < b.MarkingPeriod

\* lines 102-104: sort_values on several columns is a stable sort, so rows
\* with equal keys keep the order the query returned them in
SortValues(f) ==
    LET sorted[k \in 0..Len(f)] ==
            IF k = 0 THEN << >>
            ELSE LET prev == sorted[k - 1]
                     r == f[k]
                     n == Cardinality({i \in DOMAIN prev : ~FlagKeyLess(r, prev[i])})
                 IN SubSeq(prev, 1, n) \o <<r>> \o SubSeq(prev, n + 1, Len(prev))
    IN sorted[Len(f)]

\* lines 104-106: drop_duplicates(subset=keys, keep="first")
DropDuplicates(f) ==
    LET keep[k \in 0..Len(f)] ==
            IF k = 0 THEN << >>
            ELSE IF \E j \in 1..(k - 1) :
                        KeyOf(f[j], FlagKeyCols) = KeyOf(f[k], FlagKeyCols)
                 THEN keep[k - 1]
                 ELSE Append(keep[k - 1], f[k])
    IN keep[Len(f)]

\* lines 70-133
load_current_year_data(db) ==
    [StudentMarks |-> db.StudentMarks,
     CourseInfo |-> db.CourseInfo,
     CourseFlag |-> DropDuplicates(SortValues(db.CourseFlag)),
     School |-> db.School,
     MarkDefinition |-> db.MarkDefinition]

-----------------------------------------------------------------------------
(* compute_current_year_coursegrades: four validated joins, the deriver,   *)
(* the renaming                                                            *)

InfoKey == {"SchoolYear", "SchoolDBN", "TermCD", "CourseCD"}

InfoCols == InfoKey \cup {"CourseTitle", "GradeAverageFactor"}

FlagCols == FlagKeyCols \cup {"GradeAveragedFlag"}

SchoolKey == {"SchoolDBN"}

SchoolCols == {"SchoolDBN", "NumericSchoolDBN"}

MarkDefKey == {"SchoolYear", "NumericSchoolDBN", "TermCD", "Mark"}

MarkDefCols == MarkDefKey \cup {"isPassing", "AlphaEquivalent", "NumericEquivalent"}

\* validate="m:1" with no check at all
RightUniqueUnchecked(right, on) == TRUE

\* validate="m:1": the keys of the right frame are unique
RightUnique(right, on) ==
    \A i, j \in DOMAIN right :
        KeyOf(right[i], on) = KeyOf(right[j], on) => i = j

\* pd.merge(left, right, on=on, how=how): for each left row, in order, one
\* row per right row with the same key (a null key matches a null key); a
\* left join keeps an unmatched left row with nulls in the right's columns
Merge(left, right, on, rcols, how) ==
    LET Matches(l) == SelectSeq(right, LAMBDA r : KeyOf(r, on) = KeyOf(l, on))
        Joined(l) ==
            LET ms == Matches(l)
            IN IF ms = << >>
               THEN IF how = "left"
                    THEN <<l @@ [c \in rcols \ on |-> NULL]>>
                    ELSE << >>
               ELSE [i \in DOMAIN ms |-> l @@ ms[i]]
    IN Concat([i \in DOMAIN left |-> Joined(left[i])])

\* lines 234-249: the renaming and lower-casing of the columns
RenameColumns(r) ==
    [school_year |-> r.SchoolYear, student_id |-> r.StudentID,
     dbn |-> r.SchoolDBN, term_code |-> r.TermCD, section |-> r.Section,
     course_code |-> r.CourseCD, course_title |-> r.CourseTitle,
     subject |-> r.subject, course_description |-> r.course_description,
     credits |-> r.Credits, mark |-> r.Mark,
     grade_average_factor |-> r.GradeAverageFactor,
     grade_averaged_flag |-> r.GradeAveragedFlag,
     is_passing |-> r.isPassing, alpha_equivalent |-> r.AlphaEquivalent,
     numeric_equivalent |-> r.NumericEquivalent,
     markingperiod |-> r.MarkingPeriod,
     numericschooldbn |-> r.NumericSchoolDBN, dataset |-> r.dataset]

\* lines 193-227: does every join pass its validate="m:1"
JoinsValid(t) ==
    /\ RightUnique(t.CourseInfo, InfoKey)
    /\ RightUnique(t.CourseFlag, FlagKeyCols)
    /\ RightUnique(t.School, SchoolKey)
    /\ RightUnique(t.MarkDefinition, MarkDefKey)

\* lines 186-275, for tables whose joins are valid
compute_current_year_coursegrades(t) ==
    LET m1 == Merge(t.StudentMarks, t.CourseInfo, InfoKey, InfoCols, "inner")
        m2 == Merge(m1, t.CourseFlag, FlagKeyCols, FlagCols, "left")
        m3 == Merge(m2, t.School, SchoolKey, SchoolCols, "inner")
        m4 == Merge(m3, t.MarkDefinition, MarkDefKey, MarkDefCols, "left")
        tagged == [i \in DOMAIN m4 |-> SetCol(m4[i], "dataset", "High School")]
        withAttrs == derive_subject_and_description(tagged)
    IN [i \in DOMAIN withAttrs |-> RenameColumns(withAttrs[i])]

\* line 184: the five queries
LoadCurrentYearData(dbs) ==
    /\ pc = "current"
    /\ \E db \in dbs :
          /\ sql_courseflag' = db.CourseFlag
          /\ tables' = load_current_year_data(db)
    /\ reads' = Append(reads, "SIF")
    /\ pc' = "loaded"
    /\ UNCHANGED <<argv, prev_pairs, coursegrades, merged, prior_dfs,
                   all_frames, cumulative, output, err, df, derived>>

\* lines 186-275: a join whose validation fails raises MergeError
AssembleCoursegrades ==
    /\ pc = "loaded"
    /\ IF JoinsValid(tables)
       THEN /\ coursegrades' = compute_current_year_coursegrades(tables)
            /\ pc' = "coursegrades"
            /\ err' = err
       ELSE /\ pc' = "failed"
            /\ err' = "MergeError"
            /\ coursegrades' = coursegrades
    /\ UNCHANGED <<argv, prev_pairs, reads, sql_courseflag, tables, merged,
                   prior_dfs, all_frames, cumulative, output, df, derived>>

-----------------------------------------------------------------------------
(* The loader and the assembler on their own                               *)

RECURSIVE SetToSeq(_)
\* the elements of a finite set in some fixed order (the order a query
\* returns its distinct rows in)
SetToSeq(S) ==
    IF S = {} THEN << >>
    ELSE LET x == CHOOSE y \in S : TRUE
         IN <<x>> \o SetToSeq(S \ {x})

\* the subsets of S with at most n elements, each as a sequence
TablesUpTo(S, n) == {SetToSeq(T) : T \in {U \in SUBSET S : Cardinality(U) <= n}}

\* the sequences of at most n distinct elements of S, in every order
DistinctSeqsUpTo(S, n) ==
    {q \in SeqsUpTo(S, n) : \A i, j \in DOMAIN q : q[i] = q[j] => i = j}

CodeE == <<"E", "3", "H", "X", "X", "X">>

CodeM == <<"M", "3", "H", "M", "X", "A">>

MarkRow(sid, dbn, mark, credits) ==
    [SchoolYear |-> 2023, StudentID |-> sid, SchoolDBN |-> dbn, TermCD |-> 1,
     CourseCD |-> Some(CodeE), Section |-> 1, Credits |-> Some(credits),
     Mark |-> mark, MarkingPeriod |-> 1]

InfoRow(dbn, title, factor) ==
    [SchoolYear |-> 2023, SchoolDBN |-> dbn, TermCD |-> 1,
     CourseCD |-> Some(CodeE), CourseTitle |-> Some(title),
     GradeAverageFactor |-> Some(factor)]

FlagRow(dbn, code, flag) ==
    [SchoolYear |-> 2023, SchoolDBN |-> dbn, TermCD |-> 1,
     CourseCD |-> Some(code), GradeAveragedFlag |-> flag, MarkingPeriod |-> 1]

SchoolRow(dbn, num) == [SchoolDBN |-> dbn, NumericSchoolDBN |-> num]

MarkDefRow(num, mark, passing, numeq) ==
    [SchoolYear |-> 2023, NumericSchoolDBN |-> num, TermCD |-> 1,
     Mark |-> mark, isPassing |-> passing, AlphaEquivalent |-> Some("A"),
     NumericEquivalent |-> Some(numeq)]

EmptyDb ==
    [StudentMarks |-> << >>, CourseInfo |-> << >>, CourseFlag |-> << >>,
     School |-> << >>, MarkDefinition |-> << >>]

\* raw CourseFlag rows: distinct rows, duplicate keys allowed, any order
FlagRowValues ==
    {FlagRow(dbn, code, flag) :
        dbn \in {1, 2}, code \in {CodeE, CodeM}, flag \in {Some(0), Some(1)}}

FlagDbs ==
    {[EmptyDb EXCEPT !.CourseFlag = q] :
        q \in DistinctSeqsUpTo(FlagRowValues, MaxFlagRows)}

InitFlag == MainAt("current") /\ df = << >> /\ derived = << >>

NextFlag == LoadCurrentYearData(FlagDbs)

SpecFlag == InitFlag /\ [][NextFlag]_vars

AssembleMarks ==
    {MarkRow(1, dbn, mark, 1) : dbn \in {1, 2}, mark \in {Some("P"), NULL}}

AssembleInfo == {InfoRow(1, "t1", 1), InfoRow(1, "t2", 1), InfoRow(2, "t1", 1)}

AssembleFlags == {FlagRow(1, CodeE, Some(0)), FlagRow(1, CodeE, Some(1))}

AssembleSchools == {SchoolRow(1, 10), SchoolRow(1, 20), SchoolRow(2, 10)}

AssembleMarkDefs ==
    {MarkDefRow(10, Some("P"), Some(1), 3), MarkDefRow(10, Some("P"), Some(0), 4),
     MarkDefRow(10, NULL, Some(1), 3)}

AssembleDbs ==
    {[StudentMarks |-> m, CourseInfo |-> i, CourseFlag |-> f, School |-> s,
      MarkDefinition |-> d] :
        m \in TablesUpTo(AssembleMarks, MaxTableRows),
        i \in TablesUpTo(AssembleInfo, MaxTableRows),
        f \in TablesUpTo(AssembleFlags, MaxTableRows),
        s \in TablesUpTo(AssembleSchools, MaxTableRows),
        d \in TablesUpTo(AssembleMarkDefs, MaxTableRows)}

InitAssemble == MainAt("current") /\ df = << >> /\ derived = << >>

NextAssemble ==
    \/ LoadCurrentYearData(AssembleDbs)
    \/ AssembleCoursegrades

SpecAssemble == InitAssemble /\ [][NextAssemble]_vars

-----------------------------------------------------------------------------
(* parse_prev_courses: an item is a sequence of tokens, "=" one of them    *)

\* str.lower() of a token
Lower(tok) == IF tok = ".CSV" THEN ".csv" ELSE tok

RECURSIVE Strip(_)
\* str.strip(): leading and trailing blanks removed
Strip(s) ==
    IF s = << >> THEN s
    ELSE IF Head(s) = " " THEN Strip(Tail(s))
    ELSE IF s[Len(s)] = " " THEN Strip(SubSeq(s, 1, Len(s) - 1))
    ELSE s

\* line 46: "=" in item
HasEq(item) == \E i \in DOMAIN item : item[i] = "="

\* line 48: item.split("=", 1), the split at the first "="
SplitAtFirstEq(item) ==
    LET k == CHOOSE i \in DOMAIN item :
                 item[i] = "=" /\ \A j \in 1..(i - 1) : item[j] # "="
    IN <<SubSeq(item, 1, k - 1), SubSeq(item, k + 1, Len(item))>>

\* line 49 with the check of the extension left out
EndsWithAnything(path) == TRUE

\* line 49: path.lower().endswith(".csv")
EndsWithCsv(path) == path # << >> /\ Lower(path[Len(path)]) = ".csv"

\* lines 46-50: does the item pass both checks
ItemOk(item) == HasEq(item) /\ EndsWithCsv(SplitAtFirstEq(item)[2])

\* lines 44-52, for a list whose items all pass
parse_prev_courses(pairs) ==
    [i \in DOMAIN pairs |->
        LET parts == SplitAtFirstEq(pairs[i])
        IN <<Strip(parts[1]), Strip(parts[2])>>]

\* line 406: the first item that fails a check raises ValueError
ParsePrevCourses ==
    /\ pc = "start"
    /\ IF \A i \in DOMAIN argv : ItemOk(argv[i])
       THEN /\ prev_pairs' = parse_prev_courses(argv)
            /\ pc' = "current"
            /\ err' = err
       ELSE /\ pc' = "failed"
            /\ err' = "ValueError"
            /\ prev_pairs' = prev_pairs
    /\ UNCHANGED <<argv, reads, sql_courseflag, tables, coursegrades, merged,
                   prior_dfs, all_frames, cumulative, output, df, derived>>

-----------------------------------------------------------------------------
(* The roster: lines 341-358                                               *)

\* str.lower() of a column name
LowerName(c) ==
    CASE c = "STUDENT_ID" -> "student_id"
      [] c = "Grade_Level" -> "grade_level"
      [] c = "School_Year" -> "school_year"
      [] c = "Credits" -> "credits"
      [] OTHER -> c

LowerNames(cols) == {LowerName(c) : c \in cols}

\* validate="1:m": the keys of the left frame are unique
LeftUnique(left) ==
    \A i, j \in DOMAIN left : left[i].student_id = left[j].student_id => i = j

\* lines 348-350: the rows of grades 09-12, the grade_level column dropped
FilterGrades(rows) ==
    LET kept == SelectSeq(rows, LAMBDA r : r.grade_level \in {"09", "10", "11", "12"})
    IN [i \in DOMAIN kept |-> [student_id |-> kept[i].student_id]]

\* lines 352-358: the inner join of the roster with the coursegrades
MergeRoster(biog, cg) ==
    LET Joined(b) ==
            LET ms == SelectSeq(cg, LAMBDA r : r.student_id = b.student_id)
            IN [i \in DOMAIN ms |-> b @@ ms[i]]
    IN Concat([i \in DOMAIN biog |-> Joined(biog[i])])

\* lines 341-358: a missing column raises ValueError, a roster that lists a
\* student twice raises MergeError
ReadBiog(files) ==
    /\ pc = "coursegrades"
    /\ reads' = Append(reads, "biog")
    /\ \E file \in files :
          LET cols == LowerNames(file.columns)
              biog == FilterGrades(file.rows)
          IN IF "grade_level" \notin cols \/ "student_id" \notin cols
             THEN /\ pc' = "failed"
                  /\ err' = "ValueError"
                  /\ merged' = merged
             ELSE IF ~LeftUnique(biog)
             THEN /\ pc' = "failed"
                  /\ err' = "MergeError"
                  /\ merged' = merged
             ELSE /\ pc' = "merged"
                  /\ err' = err
                  /\ merged' = MergeRoster(biog, coursegrades)
    /\ UNCHANGED <<argv, prev_pairs, sql_courseflag, tables, coursegrades,
                   prior_dfs, all_frames, cumulative, output, df, derived>>

-----------------------------------------------------------------------------
(* compute_yearly_totals                                                   *)

\* the product of nullable numbers: null when either is null
Times(a, b) == IF IsNull(a) \/ IsNull(b) THEN NULL ELSE Some(Val(a) * Val(b))

\* line 283, the filter with the flag test left out
EligibleIgnoringFlag(r) == ~IsNull(r.numeric_equivalent)

\* line 283: the row is dropped when fillna(0) of the flag is 0 or the
\* numeric equivalent is null
Eligible(r) ==
    ~((IF IsNull(r.grade_averaged_flag) THEN 0 ELSE Val(r.grade_averaged_flag)) = 0
      \/ IsNull(r.numeric_equivalent))

\* lines 291-295: the three tot_* columns of a row
WithTotals(r) ==
    [school_year |-> r.school_year, student_id |-> r.student_id,
     tot_cred_att |-> r.credits,
     tot_cred_earned |-> Times(r.credits, r.is_passing),
     tot_gpa_pts |-> Times(Times(r.numeric_equivalent, r.credits),
                           r.grade_average_factor)]

RECURSIVE SumSkipNull(_)
\* the sum of the non-null cells
SumSkipNull(cells) ==
    IF cells = << >> THEN 0
    ELSE (IF IsNull(Head(cells)) THEN 0 ELSE Val(Head(cells)))
         + SumSkipNull(Tail(cells))

\* sum(min_count=0): an all-null group sums to 0
SumMinCount0(cells) == Some(SumSkipNull(cells))

\* sum(min_count=1): null unless at least one cell is non-null
SumMinCount1(cells) ==
    IF \A i \in DOMAIN cells : IsNull(cells[i]) THEN NULL
    ELSE Some(SumSkipNull(cells))

\* the column col of frame f
Column(f, col) == [i \in DOMAIN f |-> f[i][col]]

TupleLess(a, b) ==
    \/ a[1] < b[1]
    \/ a[1] = b[1] /\ Len(a) > 1 /\ a[2] < b[2]

RECURSIVE SortKeys(_)
\* the group keys in ascending order (groupby sorts its keys)
SortKeys(S) ==
    IF S = {} THEN << >>
    ELSE LET m == CHOOSE x \in S : \A y \in S : y = x \/ TupleLess(x, y)
         IN <<m>> \o SortKeys(S \ {m})

\* lines 297-305
GroupByYearStudent(d) ==
    LET keys == SortKeys({<<d[i].school_year, d[i].student_id>> : i \in DOMAIN d})
        Group(k) == SelectSeq(d, LAMBDA r : <<r.school_year, r.student_id>> = k)
    IN [n \in DOMAIN keys |->
           LET g == Group(keys[n])
           IN [school_year |-> keys[n][1], student_id |-> keys[n][2],
               tot_cred_att |-> SumMinCount1(Column(g, "tot_cred_att")),
               tot_cred_earned |-> SumMinCount1(Column(g, "tot_cred_earned")),
               tot_gpa_pts |-> SumMinCount1(Column(g, "tot_gpa_pts"))]]

\* lines 278-305
compute_yearly_totals(f) ==
    LET kept == SelectSeq(f, Eligible)
    IN GroupByYearStudent([i \in DOMAIN kept |-> WithTotals(kept[i])])

\* lines 361-362: is_passing is null where mark is null
ForceIsPassing(f) ==
    [i \in DOMAIN f |->
        IF IsNull(f[i].mark) THEN [f[i] EXCEPT !.is_passing = NULL] ELSE f[i]]

\* lines 360-364
TotalsCurrent ==
    /\ pc = "merged"
    /\ merged' = ForceIsPassing(merged)
    /\ all_frames' = <<compute_yearly_totals(ForceIsPassing(merged))>>
    /\ pc' = "prior"
    /\ UNCHANGED <<argv, prev_pairs, reads, sql_courseflag, tables,
                   coursegrades, prior_dfs, cumulative, output, err, df,
                   derived>>

-----------------------------------------------------------------------------
(* load_prior_courses and the loop over the prior years                    *)

RequiredCols ==
    {"school_year", "student_id", "credits", "is_passing", "numeric_equivalent",
     "grade_average_factor", "grade_averaged_flag"}

\* lines 322-326: is no required column missing
HasRequired(cols) == RequiredCols \subseteq LowerNames(cols)

\* lines 368-371, one turn of the loop: the next file is read, checked and
\* aggregated; a missing column raises ValueError
PriorYear(files) ==
    /\ pc = "prior"
    /\ Len(all_frames) - 1 < Len(prev_pairs)
    /\ reads' = Append(reads, "prior")
    /\ \E file \in files :
          IF HasRequired(file.columns)
          THEN /\ prior_dfs' = Append(prior_dfs, file.rows)
               /\ all_frames' = Append(all_frames, compute_yearly_totals(file.rows))
               /\ pc' = pc
               /\ err' = err
          ELSE /\ pc' = "failed"
               /\ err' = "ValueError"
               /\ UNCHANGED <<prior_dfs, all_frames>>
    /\ UNCHANGED <<argv, prev_pairs, sql_courseflag, tables, coursegrades,
                   merged, cumulative, output, df, derived>>

-----------------------------------------------------------------------------
(* The cumulative combiner: lines 373-386                                  *)

NaN == [kind |-> "nan", val |-> 0]

Num(h) == [kind |-> "num", val |-> h]

Inf(sign) == [kind |-> "inf", val |-> sign]

\* the quotient p / a for a > 0 cut to hundredths instead of rounded
RoundDown(p, a) == (100 * p) \div a

\* round(2) of the quotient p / a for a > 0, in hundredths: numpy rounds to
\* the nearest hundredth, a tie going to the even one
RoundHalfEven(p, a) ==
    LET n == 100 * p
        fl == n \div a
        rem == n - fl * a
    IN IF 2 * rem < a THEN fl
       ELSE IF 2 * rem > a THEN fl + 1
       ELSE IF fl % 2 = 0 THEN fl ELSE fl + 1

\* lines 385-386: the float quotient, rounded; x / 0 is infinite for x # 0
\* and NaN for x = 0, and a null operand gives NaN
Divide(pts, att) ==
    IF IsNull(pts) \/ IsNull(att) THEN NaN
    ELSE IF Val(att) = 0
         THEN IF Val(pts) = 0 THEN NaN
              ELSE IF Val(pts) > 0 THEN Inf(1) ELSE Inf(-1)
    ELSE IF Val(att) > 0 THEN Num(RoundHalfEven(Val(pts), Val(att)))
    ELSE Num(RoundHalfEven(-Val(pts), -Val(att)))

\* lines 377-382 keeping only the first row of each student
CollapseFirstRow(cat) ==
    LET keys == SortKeys({<<cat[i].student_id>> : i \in DOMAIN cat})
        Group(k) == SelectSeq(cat, LAMBDA r : <<r.student_id>> = k)
    IN [n \in DOMAIN keys |->
           LET g == Group(keys[n])
           IN [student_id |-> keys[n][1],
               tot_cred_att |-> g[1].tot_cred_att,
               tot_cred_earned |-> g[1].tot_cred_earned,
               tot_gpa_pts |-> g[1].tot_gpa_pts]]

\* lines 377-382
CollapseByStudent(cat) ==
    LET keys == SortKeys({<<cat[i].student_id>> : i \in DOMAIN cat})
        Group(k) == SelectSeq(cat, LAMBDA r : <<r.student_id>> = k)
    IN [n \in DOMAIN keys |->
           LET g == Group(keys[n])
           IN [student_id |-> keys[n][1],
               tot_cred_att |-> SumMinCount1(Column(g, "tot_cred_att")),
               tot_cred_earned |-> SumMinCount1(Column(g, "tot_cred_earned")),
               tot_gpa_pts |-> SumMinCount1(Column(g, "tot_gpa_pts"))]]

\* lines 373-386
CombineFrames(frames) ==
    LET collapsed == CollapseByStudent(Concat(frames))
    IN [i \in DOMAIN collapsed |->
           SetCol(collapsed[i], "tot_gpa",
                  Divide(collapsed[i].tot_gpa_pts, collapsed[i].tot_cred_att))]

Combine ==
    /\ pc = "prior"
    /\ Len(all_frames) - 1 = Len(prev_pairs)
    /\ cumulative' = CombineFrames(all_frames)
    /\ pc' = "combined"
    /\ UNCHANGED <<argv, prev_pairs, reads, sql_courseflag, tables,
                   coursegrades, merged, prior_dfs, all_frames, output, err,
                   df, derived>>

\* line 389: to_stata refuses a column that holds an infinity (ValueError,
\* raised before the file is opened); otherwise the file is written
Save ==
    /\ pc = "combined"
    /\ IF \E i \in DOMAIN cumulative : cumulative[i].tot_gpa.kind = "inf"
       THEN /\ pc' = "failed"
            /\ err' = "ValueError"
            /\ output' = output
       ELSE /\ pc' = "done"
            /\ err' = err
            /\ output' = <<cumulative>>
    /\ UNCHANGED <<argv, prev_pairs, reads, sql_courseflag, tables,
                   coursegrades, merged, prior_dfs, all_frames, cumulative,
                   df, derived>>

-----------------------------------------------------------------------------
(* main: the whole run, its inputs drawn from small sets                   *)

ItemA == <<"2021-22", "=", "/a", ".csv">>

ItemB == <<" ", "2022-23", "=", "/b", "=", ".CSV">>

ItemNoEq == <<"/a", ".csv">>

ItemNotCsv == <<"2021-22", "=", "/a", ".dta">>

ArgvValues == SeqsUpTo({ItemA, ItemB, ItemNoEq, ItemNotCsv}, MaxPrior)

MainMarkDefs ==
    <<MarkDefRow(10, Some("A"), Some(1), 9), MarkDefRow(10, Some("B"), Some(1), 8),
      MarkDefRow(10, NULL, Some(1), 5)>>

MainDbs ==
    {[StudentMarks |-> m, CourseInfo |-> i, CourseFlag |-> f, School |-> s,
      MarkDefinition |-> d] :
        m \in {<<MarkRow(1, 1, Some("A"), 10), MarkRow(1, 1, Some("B"), 10)>>,
               <<MarkRow(1, 1, Some("A"), 10), MarkRow(2, 1, NULL, 2)>>},
        i \in {<<InfoRow(1, "t1", 1)>>,
               <<InfoRow(1, "t1", 1), InfoRow(1, "t2", 1)>>},
        f \in {<<FlagRow(1, CodeE, Some(1))>>,
               <<FlagRow(1, CodeE, Some(0)), FlagRow(1, CodeE, Some(1))>>},
        s \in {<<SchoolRow(1, 10)>>, <<SchoolRow(1, 10), SchoolRow(1, 20)>>},
        d \in {MainMarkDefs,
               Append(MainMarkDefs, MarkDefRow(10, Some("A"), Some(0), 7))}}

BiogRowValues ==
    {[student_id |-> sid, grade_level |-> g] : sid \in {1, 2}, g \in {"09", "08"}}

BiogFiles ==
    {[columns |-> c, rows |-> r] :
        c \in {{"student_id", "grade_level"}, {"STUDENT_ID", "Grade_Level"}},
        r \in SeqsUpTo(BiogRowValues, MaxBiogRows)}
    \cup {[columns |-> {"student_id"}, rows |-> << >>],
          [columns |-> {"Grade_Level"}, rows |-> << >>]}

PriorRow(year, sid, credits, passing, numeq, factor, flag) ==
    [school_year |-> year, student_id |-> sid, credits |-> credits,
     is_passing |-> passing, numeric_equivalent |-> numeq,
     grade_average_factor |-> factor, grade_averaged_flag |-> flag]

PriorColsUpper ==
    {"School_Year", "STUDENT_ID", "Credits", "is_passing", "numeric_equivalent",
     "grade_average_factor", "grade_averaged_flag"}

\* the prior-year files: their credits are whatever the file holds, not
\* only the positive credits the current year's query selects
PriorFiles ==
    {[columns |-> RequiredCols, rows |-> r] :
        r \in {<<PriorRow(2021, 1, Some(5), Some(1), Some(8), Some(1), Some(1)),
                 PriorRow(2021, 1, Some(5), Some(1), Some(9), Some(1), Some(1))>>,
               <<PriorRow(2022, 1, Some(1), Some(1), Some(9), Some(1), Some(1)),
                 PriorRow(2022, 1, Some(-1), Some(1), Some(8), Some(1), Some(1))>>,
               <<PriorRow(2021, 1, Some(0), Some(1), Some(8), Some(1), Some(1))>>,
               <<PriorRow(2021, 2, NULL, Some(1), Some(8), Some(1), Some(1))>>,
               <<PriorRow(2021, 2, Some(1), NULL, Some(8), Some(1), Some(1)),
                 PriorRow(2022, 2, Some(2), Some(0), Some(6), Some(1), Some(2))>>,
               <<PriorRow(2021, 1, Some(3), Some(1), Some(8), Some(1), Some(0)),
                 PriorRow(2021, 2, Some(3), Some(1), NULL, Some(1), Some(1))>>,
               <<PriorRow(2022, 2, Some(3), Some(1), Some(7), NULL, Some(1))>>}}
    \cup {[columns |-> PriorColsUpper,
           rows |-> <<PriorRow(2021, 2, Some(3), Some(1), Some(7), Some(1), Some(1))>>],
          [columns |-> RequiredCols \ {"credits"}, rows |-> << >>]}

Init ==
    /\ pc = "start" /\ argv \in ArgvValues /\ prev_pairs = << >>
    /\ reads = << >> /\ sql_courseflag = << >> /\ tables = << >>
    /\ coursegrades = << >> /\ merged = << >> /\ prior_dfs = << >>
    /\ all_frames = << >> /\ cumulative = << >> /\ output = << >> /\ err = ""
    /\ df = << >> /\ derived = << >>

Next ==
    \/ ParsePrevCourses
    \/ LoadCurrentYearData(MainDbs)
    \/ AssembleCoursegrades
    \/ ReadBiog(BiogFiles)
    \/ TotalsCurrent
    \/ PriorYear(PriorFiles)
    \/ Combine
    \/ Save

Spec == Init /\ [][Next]_vars

-----------------------------------------------------------------------------
(* The yearly aggregator on a roster-joined frame drawn from bounded sets, *)
(* with no prior year                                                      *)

TotalsRowValues ==
    {[school_year |-> 2023, student_id |-> sid, credits |-> Some(c),
      mark |-> mp[1], is_passing |-> mp[2], numeric_equivalent |-> ne,
      grade_average_factor |-> Some(1), grade_averaged_flag |-> fl] :
        sid \in {1, 2}, c \in {1, 2},
        mp \in {<<Some("P"), Some(1)>>, <<Some("P"), NULL>>, <<NULL, Some(1)>>},
        ne \in {NULL, Some(3)}, fl \in {NULL, Some(0), Some(1), Some(2)}}

InitTotals ==
    /\ pc = "merged" /\ argv = << >> /\ prev_pairs = << >>
    /\ reads = << >> /\ sql_courseflag = << >> /\ tables = << >>
    /\ coursegrades = << >> /\ merged \in SeqsUpTo(TotalsRowValues, MaxRows)
    /\ prior_dfs = << >> /\ all_frames = << >> /\ cumulative = << >>
    /\ output = << >> /\ err = "" /\ df = << >> /\ derived = << >>

NextTotals == TotalsCurrent \/ Combine \/ Save

SpecTotals == InitTotals /\ [][NextTotals]_vars

-----------------------------------------------------------------------------
(* Properties of the deriver (under SpecDerive)                            *)

\* the character at 0-based index k of a CourseCD cell, "" when there is none
CharAt(cell, k) ==
    LET str == IF cell = NULL THEN <<"N", "o", "n", "e">> ELSE cell[1]
    IN IF k < Len(str) THEN str[k + 1] ELSE ""

\* the subject the char1 table gives
BaseSubject(c) ==
    CASE c = "E" -> "English"
      [] c = "H" -> "Social Studies"
      [] c = "M" -> "Mathematics"
      [] c = "S" -> "Science"
      [] c = "F" -> "Foreign Language"
      [] c = "P" -> "Physical Education & Health"
      [] c \in {"A", "U", "D", "C"} -> "Arts"
      [] c = "T" -> "Technology"
      [] c = "R" -> "Career Development"
      [] c = "B" -> "Business"
      [] c = "K" -> "Human Services"
      [] c = "G" -> "Guidance"
      [] c = "Z" -> "Undefined"
      [] OTHER -> ""

\* the course_description the char6 table gives
BaseDescription(c) ==
    CASE c = "H" -> "Honors"
      [] c = "X" -> "Advanced Placement (AP)"
      [] c = "B" -> "International Baccalaureate (IB)"
      [] c = "U" -> "College-Level: College Credit"
      [] c = "C" -> "College-Level: Non-College Credit"
      [] c = "T" -> "CTE"
      [] c = "S" -> "Non-Credit/Remediation"
      [] c = "P" -> "Exam Preparation"
      [] c = "Q" -> "N/A"
      [] OTHER -> ""

\* C8: the derived subject and course_description of every row depend on
\* that row's course code alone: both are empty when char4 is J; the
\* description is "Accelerated" for char4 M with char6 A and empty for
\* char4 M with char6 in X, B, U, C, P, the subject keeping its char1 value;
\* otherwise both are the table values of char1 and char6 (empty for an
\* unlisted character).  The frame keeps its rows and their codes.
C8_DeriveByCode ==
    pc = "derived" =>
        /\ Len(derived) = Len(df)
        /\ \A i \in DOMAIN df :
              LET c1 == CharAt(df[i].CourseCD, 0)
                  c4 == CharAt(df[i].CourseCD, 3)
                  c6 == CharAt(df[i].CourseCD, 5)
                  out == derived[i]
              IN /\ out.CourseCD = df[i].CourseCD
                 /\ IF c4 = "J"
                    THEN out.subject = "" /\ out.course_description = ""
                    ELSE IF c4 = "M" /\ c6 = "A"
                    THEN /\ out.subject = BaseSubject(c1)
                         /\ out.course_description = "Accelerated"
                    ELSE IF c4 = "M" /\ c6 \in {"X", "B", "U", "C", "P"}
                    THEN /\ out.subject = BaseSubject(c1)
                         /\ out.course_description = ""
                    ELSE /\ out.subject = BaseSubject(c1)
                         /\ out.course_description = BaseDescription(c6)

\* C8 witness: a derived two-row frame whose first row is a middle-school
\* accelerated Mathematics code and whose second row is an elementary code
C8_Witness ==
    /\ pc = "derived"
    /\ Len(df) = 2
    /\ df[1].CourseCD = Some(<<"M", "3", "H", "M", "X", "A">>)
    /\ df[2].CourseCD = Some(<<"M", "3", "H", "J", "X", "H">>)
    /\ derived[1].subject = "Mathematics"
    /\ derived[1].course_description = "Accelerated"
    /\ derived[2].subject = ""

\* C9 as stated: the code E3HXXX derives subject English and
\* course_description Honors
C9_Original ==
    (pc = "derived" /\ Len(df) >= 1 /\ df[1].CourseCD = Some(CodeE)) =>
        /\ derived[1].subject = "English"
        /\ derived[1].course_description = "Honors"

\* C9 as amended: the code E3HXXX derives subject English and
\* course_description Advanced Placement (AP), its sixth character being X
C9_Amended ==
    (pc = "derived" /\ Len(df) >= 1 /\ df[1].CourseCD = Some(CodeE)) =>
        /\ derived[1].subject = "English"
        /\ derived[1].course_description = "Advanced Placement (AP)"

\* C9 witness: E3HXXX has been derived
C9_Witness ==
    /\ pc = "derived"
    /\ Len(df) >= 1
    /\ df[1].CourseCD = Some(CodeE)
    /\ derived[1].subject = "English"

-----------------------------------------------------------------------------
(* Properties of the loader (under SpecFlag)                               *)

\* the orders a query may return the rows q in
Reorderings(q) ==
    {[i \in DOMAIN q |-> q[p[i]]] : p \in Permutations(DOMAIN q)}

\* flag cell a sorts before flag cell b
FlagCellLess(a, b) == a # b /\ ~IsNull(a) /\ (IsNull(b) \/ Val(a) < Val(b))

\* C10: after the deduplication there is one flag row per key, the retained
\* row of a key is its first duplicate in the order of the full row (key,
\* then flag), and the result is the same for every order in which the
\* query returns its rows
C10_DedupDeterministic ==
    pc = "loaded" =>
        /\ \A i, j \in DOMAIN tables.CourseFlag :
              KeyOf(tables.CourseFlag[i], FlagKeyCols)
                  = KeyOf(tables.CourseFlag[j], FlagKeyCols) => i = j
        /\ \A i \in DOMAIN tables.CourseFlag : \A j \in DOMAIN sql_courseflag :
              KeyOf(tables.CourseFlag[i], FlagKeyCols)
                  = KeyOf(sql_courseflag[j], FlagKeyCols)
              => ~FlagCellLess(sql_courseflag[j].GradeAveragedFlag,
                               tables.CourseFlag[i].GradeAveragedFlag)
        /\ \A q \in Reorderings(sql_courseflag) :
              load_current_year_data([EmptyDb EXCEPT !.CourseFlag = q]).CourseFlag
                  = tables.CourseFlag

-----------------------------------------------------------------------------
(* Properties of the assembler (under SpecAssemble)                        *)

\* the mark record a coursegrade row was made from
MarkPart(r) ==
    [SchoolYear |-> r.school_year, StudentID |-> r.student_id,
     SchoolDBN |-> r.dbn, TermCD |-> r.term_code, CourseCD |-> r.course_code,
     Section |-> r.section, Credits |-> r.credits, Mark |-> r.mark,
     MarkingPeriod |-> r.markingperiod]

\* the coursegrade rows made from mark record m
RowsFor(m) == {i \in DOMAIN coursegrades : MarkPart(coursegrades[i]) = m}

\* the rows of table t whose columns cols equal those of m
Matching(t, m, cols) == {i \in DOMAIN t : \A c \in cols : t[i][c] = m[c]}

\* does table t hold two rows with the same columns cols
HasDuplicateKey(t, cols) ==
    \E i, j \in DOMAIN t : i # j /\ \A c \in cols : t[i][c] = t[j][c]

\* C7: no mark record yields more than one coursegrade row and every
\* coursegrade row comes from a mark record; a mark with a course-metadata
\* row and a school row yields exactly one, with null flag when no flag row
\* matches and null grade-scale fields when no mark-definition row matches;
\* tables with a duplicate key on the "one" side of a join end in MergeError
\* with no coursegrades
C7_NoFanOut ==
    /\ pc = "coursegrades" =>
          /\ \A i \in DOMAIN coursegrades :
                \E j \in DOMAIN tables.StudentMarks :
                    MarkPart(coursegrades[i]) = tables.StudentMarks[j]
          /\ \A j \in DOMAIN tables.StudentMarks :
                LET m == tables.StudentMarks[j]
                    hasInfo == Matching(tables.CourseInfo, m, InfoKey) # {}
                    schools == Matching(tables.School, m, SchoolKey)
                    hasFlag == Matching(tables.CourseFlag, m, FlagKeyCols) # {}
                IN /\ Cardinality(RowsFor(m)) <= 1
                   /\ (hasInfo /\ schools # {}) =>
                         /\ Cardinality(RowsFor(m)) = 1
                         /\ \A i \in RowsFor(m) :
                               LET r == coursegrades[i]
                                   key == m @@ [NumericSchoolDBN |->
                                                    r.numericschooldbn]
                                   hasDef == Matching(tables.MarkDefinition,
                                                      key, MarkDefKey) # {}
                               IN /\ ~hasFlag => r.grade_averaged_flag = NULL
                                  /\ ~hasDef =>
                                        /\ r.is_passing = NULL
                                        /\ r.alpha_equivalent = NULL
                                        /\ r.numeric_equivalent = NULL
                                  /\ hasDef => r.numeric_equivalent # NULL
    /\ (pc \in {"coursegrades", "failed"}
        /\ \/ HasDuplicateKey(tables.CourseInfo, InfoKey)
           \/ HasDuplicateKey(tables.CourseFlag, FlagKeyCols)
           \/ HasDuplicateKey(tables.School, SchoolKey)
           \/ HasDuplicateKey(tables.MarkDefinition, MarkDefKey))
       => pc = "failed" /\ err = "MergeError" /\ coursegrades = << >>

\* C7 witness: two marks assembled into two coursegrade rows, one of them
\* with no flag row and no mark-definition row
C7_Witness ==
    /\ pc = "coursegrades"
    /\ Len(tables.StudentMarks) = 2
    /\ Len(coursegrades) = 2
    /\ \E i \in DOMAIN coursegrades :
          /\ coursegrades[i].grade_averaged_flag = NULL
          /\ coursegrades[i].numeric_equivalent = NULL
    /\ \E i \in DOMAIN coursegrades : coursegrades[i].grade_averaged_flag # NULL

-----------------------------------------------------------------------------
(* Properties of the aggregator and the combiner                           *)

Abs(x) == IF x < 0 THEN -x ELSE x

RECURSIVE IndexSum(_, _)
\* the sum of the values of the cells at the indices S, none of them null
IndexSum(S, cells) ==
    IF S = {} THEN 0
    ELSE LET i == CHOOSE j \in S : TRUE
         IN Val(cells[i]) + IndexSum(S \ {i}, cells)

\* the sum of the non-null cells at the indices S, null when there is none
NullSum(S, cells) ==
    LET N == {i \in S : cells[i] # NULL}
    IN IF N = {} THEN NULL ELSE Some(IndexSum(N, cells))

\* a row contributes to the yearly totals: its flag is non-null and nonzero
\* and its numeric equivalent is non-null
Contributes(r) ==
    /\ r.grade_averaged_flag # NULL
    /\ Val(r.grade_averaged_flag) # 0
    /\ r.numeric_equivalent # NULL

\* what the rows of a coursegrade frame contribute to each tot_* field
AttCells(f) == [i \in DOMAIN f |-> f[i].credits]

EarnedCells(f) ==
    [i \in DOMAIN f |->
        IF f[i].credits = NULL \/ f[i].is_passing = NULL THEN NULL
        ELSE Some(Val(f[i].credits) * Val(f[i].is_passing))]

PtsCells(f) ==
    [i \in DOMAIN f |->
        IF \/ f[i].credits = NULL
           \/ f[i].numeric_equivalent = NULL
           \/ f[i].grade_average_factor = NULL
        THEN NULL
        ELSE Some(Val(f[i].numeric_equivalent) * Val(f[i].credits)
                  * Val(f[i].grade_average_factor))]

\* the contributing rows of frame f for one school year and student
GroupRows(f, year, sid) ==
    {i \in DOMAIN f :
        f[i].school_year = year /\ f[i].student_id = sid /\ Contributes(f[i])}

\* yearly frame t aggregates coursegrade frame f: one row per (school_year,
\* student_id) with a contributing row, each tot_* the null-preserving sum
\* of the contributions
AggregatesFrame(t, f) ==
    /\ {<<t[g].school_year, t[g].student_id>> : g \in DOMAIN t}
         = {<<f[i].school_year, f[i].student_id>> :
               i \in {j \in DOMAIN f : Contributes(f[j])}}
    /\ \A g, h \in DOMAIN t :
          (t[g].school_year = t[h].school_year
           /\ t[g].student_id = t[h].student_id) => g = h
    /\ \A g \in DOMAIN t :
          LET S == GroupRows(f, t[g].school_year, t[g].student_id)
          IN /\ t[g].tot_cred_att = NullSum(S, AttCells(f))
             /\ t[g].tot_cred_earned = NullSum(S, EarnedCells(f))
             /\ t[g].tot_gpa_pts = NullSum(S, PtsCells(f))

\* the rows of the concatenated yearly frames cat that belong to student sid
StudentRows(cat, sid) == {j \in DOMAIN cat : cat[j].student_id = sid}

\* C1 as stated: a student whose cumulative tot_cred_att is 0 or null, or
\* whose cumulative tot_gpa_pts is null, has a null tot_gpa, and the run
\* does not fail once the cumulative frame is computed
C1_ZeroCreditsGiveNullGpa ==
    /\ \A i \in DOMAIN cumulative :
          (\/ cumulative[i].tot_cred_att = NULL
           \/ cumulative[i].tot_cred_att = Some(0)
           \/ cumulative[i].tot_gpa_pts = NULL)
          => cumulative[i].tot_gpa = NaN
    /\ ~(pc = "failed" /\ cumulative # << >>)

\* C2: the cumulative frame has exactly one row per student of the yearly
\* aggregates, each tot_* is the sum of that field over all of the
\* student's yearly rows, tot_gpa is a hundredth nearest to tot_gpa_pts /
\* tot_cred_att, and the file written is that frame
C2_CumulativeSums ==
    pc \in {"combined", "done"} =>
        LET cat == Concat(all_frames)
        IN /\ {cumulative[i].student_id : i \in DOMAIN cumulative}
                = {cat[j].student_id : j \in DOMAIN cat}
           /\ \A i, j \in DOMAIN cumulative :
                 cumulative[i].student_id = cumulative[j].student_id => i = j
           /\ \A i \in DOMAIN cumulative :
                 LET r == cumulative[i]
                     S == StudentRows(cat, r.student_id)
                 IN /\ r.tot_cred_att = NullSum(S, Column(cat, "tot_cred_att"))
                    /\ r.tot_cred_earned
                          = NullSum(S, Column(cat, "tot_cred_earned"))
                    /\ r.tot_gpa_pts = NullSum(S, Column(cat, "tot_gpa_pts"))
                    /\ (r.tot_gpa_pts # NULL /\ r.tot_cred_att # NULL
                        /\ r.tot_cred_att # Some(0)) =>
                          /\ r.tot_gpa.kind = "num"
                          /\ 2 * Abs(100 * Val(r.tot_gpa_pts)
                                     - r.tot_gpa.val * Val(r.tot_cred_att))
                                <= Abs(Val(r.tot_cred_att))
           /\ pc = "done" => output = <<cumulative>>

\* C2 witness: (170, 20) in the current year and (85, 10) in one prior year
\* written out as tot_gpa_pts 255, tot_cred_att 30, tot_gpa 8.50
C2_Witness ==
    /\ pc = "done"
    /\ Len(all_frames) = 2
    /\ Len(all_frames[1]) = 1 /\ Len(all_frames[2]) = 1
    /\ all_frames[1][1].tot_gpa_pts = Some(170)
    /\ all_frames[1][1].tot_cred_att = Some(20)
    /\ all_frames[2][1].tot_gpa_pts = Some(85)
    /\ all_frames[2][1].tot_cred_att = Some(10)
    /\ all_frames[1][1].student_id = all_frames[2][1].student_id
    /\ Len(output[1]) = 1
    /\ output[1][1].tot_gpa_pts = Some(255)
    /\ output[1][1].tot_cred_att = Some(30)
    /\ output[1][1].tot_gpa = Num(850)

C4_NullPreservingSums ==
    /\ \A n \in DOMAIN all_frames :
          AggregatesFrame(all_frames[n],
                          IF n = 1 THEN merged ELSE prior_dfs[n - 1])
    /\ pc \in {"combined", "done", "failed"} =>
          LET cat == Concat(all_frames)
          IN \A i \in DOMAIN cumulative :
                LET r == cumulative[i]
                    S == StudentRows(cat, r.student_id)
                    Field(c) == Column(cat, c)
                    NonNull(c) == {j \in S : cat[j][c] # NULL}
                IN \A c \in {"tot_cred_att", "tot_cred_earned", "tot_gpa_pts"} :
                      /\ (NonNull(c) = {}) <=> (r[c] = NULL)
                      /\ r[c] # NULL => Val(r[c]) = IndexSum(NonNull(c), Field(c))

\* C4 witness: a written file with a student whose tot_cred_att is 0 (a
\* zero was summed) and a student whose tot_cred_att is null (nothing was)
C4_Witness ==
    /\ pc = "done"
    /\ \E i, j \in DOMAIN cumulative :
          /\ cumulative[i].tot_cred_att = Some(0)
          /\ cumulative[j].tot_cred_att = NULL
          /\ cumulative[j].tot_gpa_pts = NULL

-----------------------------------------------------------------------------
(* Properties of main                                                      *)

\* an item of the wrong form: no "=", or a path that is no .csv file
Malformed(item) ==
    \/ "=" \notin {item[i] : i \in DOMAIN item}
    \/ item[Len(item)] \notin {".csv", ".CSV"}

\* C6: a run that failed has written no file; the file exists only when
\* the run is done, after the current year and every prior year were read
\* and aggregated; a run with a malformed --prev-courses item reads no data
C6_NoOutputOnFailure ==
    /\ pc = "failed" => output = << >>
    /\ output # << >> =>
          /\ pc = "done" /\ err = ""
          /\ Len(prev_pairs) = Len(argv)
          /\ Len(all_frames) = Len(argv) + 1
          /\ reads = <<"SIF", "biog">> \o [i \in DOMAIN argv |-> "prior"]
    /\ (\E i \in DOMAIN argv : Malformed(argv[i])) =>
          /\ reads = << >>
          /\ pc \in {"start", "failed"}
          /\ pc = "failed" => err = "ValueError"

\* C6 witness: the run failed on a prior-year file with a missing field
\* after the current year and one prior year were read and aggregated
C6_Witness ==
    /\ pc = "failed"
    /\ err = "ValueError"
    /\ reads = <<"SIF", "biog", "prior", "prior">>
    /\ Len(all_frames) = 2
    /\ output = << >>

=============================================================================
